---- MODULE Spec2Model ----
(***************************************************************************)
(* A model of common_crawler/crawl.py: the CommonCrawler client of the     *)
(* Common Crawl index (catalog load, domain listing, URL location lookup,  *)
(* WARC slice fetch, one-hop redirect following).                          *)
(*                                                                         *)
(* Text is modelled as a sequence of one-character strings, a Python dict  *)
(* as a record, a Python list as a sequence, None as the record None.      *)
(* A line break "\r\n" is the two characters CR, LF.                       *)
(***************************************************************************)
EXTENDS Integers, Sequences, FiniteSets, TLC

VARIABLES
    pc,              \* position of the running call ("idle": no call runs)
    op,              \* the public method the caller invoked last
    indexes,         \* self.indexes
    result,          \* value the last call returned (None while it runs)
    raised,          \* exception the last call terminated with, or NoException
    arg,             \* the limit the caller passed to __init__ / load_indexes
    attempts,        \* load_indexes: GETs of the catalog issued so far
    failures,        \* load_indexes: responses so far whose reason was not OK
    recent_k,        \* load_indexes: its parameter
    resp,            \* load_indexes: the last catalog response
    ind,             \* number of partitions of self.indexes consumed by the pipeline
    pages_number,    \* __get_domain_urls_in_index: pages of the current partition
    page,            \* __get_domain_urls_in_index: next page to request
    depth,           \* recursion depth of __query_index / __locate_url (retries of the request)
    urlkeys,         \* find_domain_urls: the lines read so far, in order
    all_urls,        \* find_domain_urls: what `unique` has yielded so far
    url,             \* get_url_location / load_page_data: the url looked up
    locations,       \* get_url_location: the combined candidate list
    location,        \* get_url_location: the record it returns
    range,           \* get_page_data_from_warc: the object and byte range last requested
    content,         \* get_page_data_from_warc: the decompressed, decoded payload
    warc,            \* get_page_data_from_warc: the dict it returns
    follow_redirect, \* load_page_data: its flag, for the running frame
    stack,           \* load_page_data: the frames suspended in a nested call
    resolveCalls,    \* get_url_location calls made since the caller's call started
    fetchCalls,      \* get_page_data_from_warc calls made since the caller's call started
    params,          \* get_url_location: the query parameters of the running lookup
    answers,         \* get_url_location: the answer each partition consumed so far ended with
    request,         \* the GET the session sent last to a partition
    response         \* what that GET ended with

vars == <<pc, op, indexes, result, raised, arg, attempts, failures, recent_k, resp, ind,
          pages_number, page, depth, urlkeys, all_urls, url, locations,
          location, range, content, warc, follow_redirect, stack,
          resolveCalls, fetchCalls, params, answers, request, response>>

loadVars == <<arg, attempts, failures, recent_k, resp>>
findVars == <<ind, depth, pages_number, page, urlkeys, all_urls>>
pageVars == <<url, locations, location, range, content, warc, follow_redirect,
              stack, resolveCalls, fetchCalls, params, answers>>
netVars == <<request, response>>

----------------------------------------------------------------------------
(* Python values *)

None == [type |-> "NoneType"]
PyList(s) == [type |-> "list", value |-> s]
NoException == "NoException"

\* {**a, **b}
Merge(a, b) ==
    [k \in (DOMAIN a) \cup (DOMAIN b) |-> IF k \in DOMAIN b THEN b[k] ELSE a[k]]

\* seq[0:k] of a Python list
SliceTo(s, k) ==
    LET stop == IF k < 0 THEN (IF Len(s) + k < 0 THEN 0 ELSE Len(s) + k)
                ELSE (IF k > Len(s) THEN Len(s) ELSE k)
    IN  SubSeq(s, 1, stop)

----------------------------------------------------------------------------
(* Bounds of the model *)

MaxCatalog == 6       \* partitions the catalog service lists at most
MaxLimit == 3         \* largest explicit limit a caller passes
MaxPartitions == 2    \* partitions a constructed client has loaded at most
MaxPages == 2         \* largest page count a partition reports
MaxDepth == 2         \* nested retries of one request the interpreter's stack has room for

----------------------------------------------------------------------------
(* PartitionCatalog: __init__ and load_indexes *)

\* a loop of range(11)
MaxAttemptsOneMore == 10 + 1

\* range(10) of load_indexes
MaxAttempts == 10
\* recent_indexes: int = 1 of __init__
DefaultRecentIndexes == 1
\* recent_k: int = 5 of load_indexes
DefaultRecentK == 5

\* A partition is named by the number of its crawl; its cdx-api endpoint is
\* the string the catalog lists for it.  The catalog lists the most recent
\* crawl first.
CollInfo(n) ==
    [i \in 1..n |-> ("id" :> (n + 1 - i)) @@ ("cdx-api" :> (n + 1 - i))]

\* What the catalog endpoint answers: resp.reason and, when OK, resp.json()
CatalogResponses ==
    {[reason |-> "OK", json |-> CollInfo(n)] : n \in 0..MaxCatalog}
        \cup {[reason |-> "Service Unavailable", json |-> <<>>]}

NoResponse == [reason |-> "", json |-> <<>>]

\* The limit a caller passes: absent, or an integer
LimitArgs ==
    {[given |-> FALSE]} \cup {[given |-> TRUE, value |-> k] : k \in (-1)..MaxLimit}

\* indexes[-recent_k:] in place of indexes[0:recent_k]
ParseIndexesFromEnd(json, k) ==
    LET cdx == [i \in 1..Len(json) |-> json[i]["cdx-api"]]
    IN  IF k > 0 /\ k < Len(cdx) THEN SubSeq(cdx, Len(cdx) - k + 1, Len(cdx)) ELSE cdx

\* lines 71-75 of load_indexes
ParseIndexes(json, k) ==
    LET cdx == [i \in 1..Len(json) |-> json[i]["cdx-api"]]
    IN  IF k # 0 THEN SliceTo(cdx, k) ELSE cdx

\* CommonCrawler(recent_indexes=a): up to the call of load_indexes
Construct(a) ==
    /\ pc = "new"
    /\ op' = "__init__"
    /\ arg' = a
    /\ recent_k' = IF a.given THEN a.value ELSE DefaultRecentIndexes
    /\ attempts' = 0
    /\ failures' = 0
    /\ resp' = NoResponse
    /\ pc' = "load_indexes"
    /\ UNCHANGED <<indexes, result, raised, findVars, pageVars, netVars>>

\* crawler.load_indexes(a) on a constructed client
LoadIndexes(a) ==
    /\ pc = "idle"
    /\ op' = "load_indexes"
    /\ arg' = a
    /\ recent_k' = IF a.given THEN a.value ELSE DefaultRecentK
    /\ attempts' = 0
    /\ failures' = 0
    /\ resp' = NoResponse
    /\ result' = None
    /\ raised' = NoException
    /\ pc' = "load_indexes"
    /\ UNCHANGED <<indexes, findVars, pageVars, netVars>>

\* One turn of the for loop of load_indexes: the GET, and then either the
\* break and the rest of the method, or the sleep and (after the last turn)
\* the else branch of the loop.
CatalogGet(r) ==
    /\ pc = "load_indexes"
    /\ attempts < MaxAttempts
    /\ attempts' = attempts + 1
    /\ resp' = r
    /\ IF r.reason = "OK"
       THEN /\ failures' = failures
            /\ raised' = NoException
            /\ pc' = "idle"
            /\ IF op = "__init__"
               THEN /\ indexes' = ParseIndexes(r.json, recent_k)
                    /\ result' = None
               ELSE /\ result' = PyList(ParseIndexes(r.json, recent_k))
                    /\ indexes' = indexes
       ELSE /\ failures' = failures + 1
            /\ UNCHANGED <<indexes, result>>
            /\ IF attempts + 1 = MaxAttempts
               THEN /\ raised' = "IOError"
                    /\ pc' = IF op = "__init__" THEN "failed" ELSE "idle"
               ELSE /\ raised' = raised
                    /\ pc' = pc
    /\ UNCHANGED <<op, arg, recent_k, findVars, pageVars, netVars>>

----------------------------------------------------------------------------
(* Text: the str and bytes methods the client uses *)

RECURSIVE SplitMax(_, _, _)
RECURSIVE Join(_, _)
RECURSIVE LStrip(_)
RECURSIVE RStrip(_)
RECURSIVE Unquote(_)
RECURSIVE SplitLines(_)

PyStr(s) == [type |-> "str", value |-> s]

CharAt(s, i) == SubSeq(s, i, i)

\* s.find(sep) + 1: the position of the first occurrence of sep, 0 when none
Find(s, sep) ==
    LET at == {i \in 1..(Len(s) - Len(sep) + 1) : SubSeq(s, i, i + Len(sep) - 1) = sep}
    IN  IF at = {} THEN 0 ELSE CHOOSE i \in at : \A j \in at : i <= j

\* s.split(sep, n); n = -1 splits at every occurrence
SplitMax(s, sep, n) ==
    LET i == Find(s, sep)
    IN  IF n = 0 \/ i = 0
        THEN <<s>>
        ELSE <<SubSeq(s, 1, i - 1)>>
                 \o SplitMax(SubSeq(s, i + Len(sep), Len(s)), sep, n - 1)

\* sep.join(parts)
Join(parts, sep) ==
    IF Len(parts) = 0 THEN ""
    ELSE IF Len(parts) = 1 THEN parts[1]
    ELSE parts[1] \o sep \o Join(Tail(parts), sep)

\* list.reverse()
Reverse(l) == [i \in 1..Len(l) |-> l[Len(l) + 1 - i]]

Whitespace == {" ", "\t", "\n", "\r"}

LStrip(s) ==
    IF Len(s) > 0 /\ CharAt(s, 1) \in Whitespace THEN LStrip(SubSeq(s, 2, Len(s))) ELSE s

RStrip(s) ==
    IF Len(s) > 0 /\ CharAt(s, Len(s)) \in Whitespace
    THEN RStrip(SubSeq(s, 1, Len(s) - 1)) ELSE s

\* s.strip()
Strip(s) == RStrip(LStrip(s))

\* The percent escapes that occur in the modelled responses
PercentCodes == ("20" :> " ") @@ ("2F" :> "/") @@ ("2f" :> "/") @@ ("25" :> "%")

\* urllib.parse.unquote: an escape is replaced by its character, anything
\* else (a lone %, too) is kept
Unquote(s) ==
    IF Len(s) = 0 THEN ""
    ELSE IF CharAt(s, 1) = "%" /\ Len(s) >= 3 /\ SubSeq(s, 2, 3) \in DOMAIN PercentCodes
    THEN PercentCodes[SubSeq(s, 2, 3)] \o Unquote(SubSeq(s, 4, Len(s)))
    ELSE CharAt(s, 1) \o Unquote(SubSeq(s, 2, Len(s)))

\* bytes.splitlines(): lines end at \n, \r or \r\n; no empty last line
SplitLines(b) ==
    LET ends == {i \in 1..Len(b) : CharAt(b, i) \in {"\n", "\r"}}
        i == CHOOSE e \in ends : \A j \in ends : e <= j
        skip == IF CharAt(b, i) = "\r" /\ i < Len(b) /\ CharAt(b, i + 1) = "\n" THEN 2 ELSE 1
    IN  IF Len(b) = 0 THEN <<>>
        ELSE IF ends = {} THEN <<b>>
        ELSE <<SubSeq(b, 1, i - 1)>> \o SplitLines(SubSeq(b, i + skip, Len(b)))

\* only a repetition of the item yielded last is dropped
RECURSIVE UniqueAdjacent(_, _)
UniqueAdjacent(seen, items) ==
    IF Len(items) = 0 THEN seen
    ELSE IF Len(seen) > 0 /\ seen[Len(seen)] = Head(items)
    THEN UniqueAdjacent(seen, Tail(items))
    ELSE UniqueAdjacent(Append(seen, Head(items)), Tail(items))

\* cytoolz unique, continued: `seen` holds what it has yielded, `items` come next
RECURSIVE Unique(_, _)
Unique(seen, items) ==
    IF Len(items) = 0 THEN seen
    ELSE IF \E i \in 1..Len(seen) : seen[i] = Head(items)
    THEN Unique(seen, Tail(items))
    ELSE Unique(Append(seen, Head(items)), Tail(items))

Digits ==
    ("0" :> 0) @@ ("1" :> 1) @@ ("2" :> 2) @@ ("3" :> 3) @@ ("4" :> 4)
        @@ ("5" :> 5) @@ ("6" :> 6) @@ ("7" :> 7) @@ ("8" :> 8) @@ ("9" :> 9)

RECURSIVE ParseDigits(_, _)
ParseDigits(s, acc) ==
    IF Len(s) = 0 THEN acc
    ELSE ParseDigits(SubSeq(s, 2, Len(s)), acc * 10 + Digits[CharAt(s, 1)])

\* int(s) of a decimal numeral; `ok` is false where int raises ValueError
PyInt(s) ==
    IF Len(s) > 0 /\ \A i \in 1..Len(s) : CharAt(s, i) \in DOMAIN Digits
    THEN [ok |-> TRUE, value |-> ParseDigits(s, 0)]
    ELSE [ok |-> FALSE, value |-> 0]

----------------------------------------------------------------------------
(* IndexQuery: find_domain_urls *)

\* the path joined on without the test `if path`
_urlkey_to_url_AlwaysJoin(urlkey) ==
    LET parts == SplitMax(urlkey, ")/", 1)
    IN  IF Len(parts) # 2
        THEN None
        ELSE PyStr(Join(<<Join(Reverse(SplitMax(parts[1], ",", -1)), "."), parts[2]>>, "/"))

\* _urlkey_to_url of find_domain_urls: None, or the url as a str
_urlkey_to_url(urlkey) ==
    LET parts == SplitMax(urlkey, ")/", 1)
    IN  IF Len(parts) # 2
        THEN None
        ELSE LET domain == Join(Reverse(SplitMax(parts[1], ",", -1)), ".")
                 path == parts[2]
             IN  IF path # "" THEN PyStr(Join(<<domain, path>>, "/")) ELSE PyStr(domain)

\* filter(None): what bool(x) is for an Optional[str]
Truthy(x) == x # None /\ x.value # ""

\* The pipe of find_domain_urls over the lines of one response, up to `unique`:
\* map(_urlkey_to_url), filter(None), map(unquote), map(strip)
UrlsOfLines(lines) ==
    LET conv == [i \in 1..Len(lines) |-> _urlkey_to_url(lines[i])]
        kept == SelectSeq(conv, Truthy)
    IN  [i \in 1..Len(kept) |-> Strip(Unquote(kept[i].value))]

\* Bodies a partition answers a urlkey listing with (output=text, fl=urlkey)
PageBodies ==
    { "com,example)/path\ncom,example)/\n",
      "nosep\nuk,co,example)/a)/b\ncom,example)/x%20\r\ncom,example)/x\ncom,example)/path",
      "" }

\* What the GET of __query_index ends with: the transport error, or a response
PageQueryResponses ==
    {[error |-> "ChunkedEncodingError", content |-> ""]}
        \cup {[error |-> "", content |-> b] : b \in PageBodies}

\* What a partition answers the showNumPages query with: resp.json() is
\* `json` when the body is JSON
PageCountResponses ==
    {[status_code |-> 200, is_json |-> TRUE, json |-> [pages |-> n]] : n \in 0..MaxPages}
        \cup {[status_code |-> 404, is_json |-> TRUE, json |-> [error |-> "not found"]],
              [status_code |-> 503, is_json |-> FALSE, json |-> [error |-> ""]]}

\* _get_pages_number: the exception it raises, or the number it returns
_get_pages_number(r) ==
    IF ~r.is_json THEN [raises |-> "JSONDecodeError", value |-> 0]
    ELSE IF "pages" \notin DOMAIN r.json THEN [raises |-> "KeyError", value |-> 0]
    ELSE [raises |-> NoException, value |-> r.json.pages]

\* A call starts with fresh locals
FreshFind ==
    /\ ind' = 0
    /\ depth' = 0
    /\ pages_number' = 0
    /\ page' = 0
    /\ urlkeys' = <<>>
    /\ all_urls' = <<>>

NoRange == [key |-> "", first |-> 0, last |-> 0]

NoParams == [url |-> "", closest |-> ""]

NoRequest == [endpoint |-> 0, query |-> ""]

NoAnswer == [status_code |-> 0]

FreshPage ==
    /\ url' = ""
    /\ locations' = <<>>
    /\ location' = None
    /\ range' = NoRange
    /\ content' = ""
    /\ warc' = None
    /\ follow_redirect' = TRUE
    /\ stack' = <<>>
    /\ resolveCalls' = 0
    /\ fetchCalls' = 0
    /\ params' = NoParams
    /\ answers' = <<>>

\* The running call ends with exception e, which no frame catches
Raise(e) ==
    /\ pc' = "idle"
    /\ raised' = e
    /\ result' = None
    /\ stack' = <<>>

\* the list consumed as it is iterated (self.indexes.pop(0))
ConsumeIndexes(ix) == Tail(ix)

\* self.indexes after map(...) has pulled one more element of it (lines
\* 114-116 and 174-176): iterating the list leaves it as it is
IterateIndexes(ix) == ix

\* crawler.find_domain_urls(domain): the lazy pipeline is built, `list` has
\* pulled nothing yet
FindDomainUrls ==
    /\ pc = "idle"
    /\ op' = "find_domain_urls"
    /\ result' = None
    /\ raised' = NoException
    /\ FreshFind
    /\ FreshPage
    /\ request' = NoRequest
    /\ response' = NoAnswer
    /\ pc' = "find_domain_urls"
    /\ UNCHANGED <<indexes, loadVars>>

\* `list` pulls the next partition: __get_domain_urls_in_index calls
\* _get_pages_number and builds the lazy page map
GetPagesNumber(r) ==
    /\ pc = "find_domain_urls"
    /\ ind < Len(indexes)
    /\ ind' = ind + 1
    /\ indexes' = IterateIndexes(indexes)
    /\ depth' = 0
    /\ request' = [endpoint |-> indexes[ind + 1], query |-> "showNumPages"]
    /\ response' = r
    /\ LET n == _get_pages_number(r)
       IN  IF n.raises # NoException
           THEN /\ Raise(n.raises)
                /\ UNCHANGED <<pages_number, page>>
           ELSE /\ pages_number' = n.value
                /\ page' = 0
                /\ pc' = IF n.value > 0 THEN "query_index" ELSE "find_domain_urls"
                /\ UNCHANGED <<result, raised, stack>>
    /\ UNCHANGED <<op, loadVars, urlkeys, all_urls, url, locations,
                   location, range, content, warc, follow_redirect,
                   resolveCalls, fetchCalls, params, answers>>

\* the retry made for the page after the one that failed
RetryNextPage(p) == p + 1

\* the page of the recursive call, line 145
RetryPage(p) == p

\* `list` pulls the next page: __query_index(page, params, index); on the
\* transport error the sleep and the recursive call, which the interpreter
\* refuses with RecursionError once its stack is full; else the lines of the
\* response go through the pipe
QueryIndex(r) ==
    /\ pc = "query_index"
    /\ page < pages_number
    /\ request' = [endpoint |-> indexes[ind], query |-> "page", page |-> page]
    /\ response' = r
    /\ IF r.error = "ChunkedEncodingError"
       THEN IF depth < MaxDepth
            THEN /\ depth' = depth + 1
                 /\ page' = RetryPage(page)
                 /\ UNCHANGED <<pc, urlkeys, all_urls, result, raised, stack>>
            ELSE /\ Raise("RecursionError")
                 /\ UNCHANGED <<depth, page, urlkeys, all_urls>>
       ELSE LET lines == SplitLines(r.content)
            IN  /\ urlkeys' = urlkeys \o lines
                /\ all_urls' = Unique(all_urls, UrlsOfLines(lines))
                /\ page' = page + 1
                /\ depth' = 0
                /\ pc' = IF page + 1 = pages_number THEN "find_domain_urls" ELSE "query_index"
                /\ UNCHANGED <<result, raised, stack>>
    /\ UNCHANGED <<op, indexes, loadVars, ind, pages_number, url, locations, location,
                   range, content, warc, follow_redirect, resolveCalls, fetchCalls,
                   params, answers>>

\* the pipeline is exhausted: find_domain_urls returns the list
ReturnDomainUrls ==
    /\ pc = "find_domain_urls"
    /\ ind = Len(indexes)
    /\ result' = PyList(all_urls)
    /\ pc' = "idle"
    /\ UNCHANGED <<op, indexes, raised, loadVars, findVars, pageVars, netVars>>

----------------------------------------------------------------------------
(* LocationResolver: get_url_location *)

\* json.loads of one line of a location response: a record of the fields
\* fl=filename,length,offset,status,timestamp, all of them text
Capture(f, off, len, st, ts) ==
    [is_json |-> TRUE,
     json |-> [filename |-> f, offset |-> off, length |-> len, status |-> st, timestamp |-> ts]]

MalformedLine == [is_json |-> FALSE, json |-> None]

\* a capture in which the service put an index field of its own
WithOwnIndex(line) == [line EXCEPT !.json = Merge(line.json, [index |-> 0])]

\* resp.content.splitlines() of the 2xx answers a partition gives
LocationBodies ==
    { <<>>,
      <<Capture("a.warc.gz", "0", "7", "404", "3"),
        WithOwnIndex(Capture("b.warc.gz", "120", "30", "200", "5")),
        Capture("c.warc.gz", "9", "1", "200", "9")>>,
      <<Capture("d.warc.gz", "40", "12", "302", "4"),
        Capture("a.warc.gz", "0", "7", "404", "3")>>,
      <<Capture("e.warc.gz", "5", "10", "301", "8")>>,
      <<Capture("g.warc.gz", "8", "2", "307", "6")>>,
      <<Capture("b.warc.gz", "120", "30", "200", "5"), MalformedLine>> }

\* What a partition answers a location query with: 2xx with captures, 404
\* with nothing, 500 and 503 with an error page that is no JSON
LocationResponses ==
    {[status_code |-> 200, content |-> b] : b \in LocationBodies}
        \cup {[status_code |-> 404, content |-> <<>>]}
        \cup {[status_code |-> c, content |-> <<MalformedLine>>] : c \in {500, 503}}

\* self._cur_ts() when the k-th get_url_location of a call makes its params:
\* the clock has moved on between the two
_cur_ts(k) == IF k = 1 THEN "20200101000000" ELSE "20200101000007"

\* every status but 503 taken for a success
IsAnswered(status_code) == status_code # 503

\* resp.status_code in range(200, 300), line 187
IsSuccess(status_code) == status_code \in 200..299

\* the pipe stopped at the first partition that gave a "200" capture
PipeStopsAtTwoHundred(i, ix, locs) ==
    i = Len(ix) \/ \E k \in 1..Len(locs) : locs[k].status = "200"

\* list(...) of lines 174-176 has pulled every element of self.indexes
\* through the pipe, whatever locations it has gathered
PipeExhausted(i, ix, locs) == i = Len(ix)

\* the 200 candidate with the greatest timestamp in place of the first one
MostRecentLocation(locs) ==
    LET two_hundreds == SelectSeq(locs, LAMBDA x : x.status = "200")
        newest == CHOOSE i \in 1..Len(two_hundreds) :
                      \A j \in 1..Len(two_hundreds) :
                          PyInt(two_hundreds[j].timestamp).value
                              <= PyInt(two_hundreds[i].timestamp).value
    IN  IF Len(two_hundreds) > 0 THEN two_hundreds[newest] ELSE locs[1]

\* __locate_most_relevant_location
MostRelevantLocation(locs) ==
    LET two_hundreds == SelectSeq(locs, LAMBDA x : x.status = "200")
    IN  IF Len(two_hundreds) > 0 THEN two_hundreds[1] ELSE locs[1]

\* lines 177-180 of get_url_location
LocationOf(locs) ==
    IF Len(locs) > 0 THEN MostRelevantLocation(locs) ELSE None

\* the tag put under the fields of the line: {'index': index, **x}
TagUnlessPresent(lines, index) ==
    [i \in 1..Len(lines) |-> Merge([index |-> index], lines[i].json)]

\* lines 188-190 of __locate_url: every line parsed and tagged with the index
TagLocations(lines, index) ==
    [i \in 1..Len(lines) |-> Merge(lines[i].json, [index |-> index])]

----------------------------------------------------------------------------
(* ArchiveReader: get_page_data_from_warc *)

\* The decompressed, decoded slices blob storage serves
Payloads ==
    { "WARC/1.0\r\nWARC-Type: response\r\n\r\nHTTP/1.1 200 OK\r\nContent-Type: text/html\r\n\r\n<html>\r\n\r\n</html>\r\n\r\n",
      "WARC/1.0\r\n\r\nHTTP/1.1 301 Moved\r\nServer: x\r\nLocation: http://x/y\r\n\r\n",
      "WARC/1.0\r\n\r\nHTTP/1.1 302 Found\r\nlocation: http://x/z\r\n\r\nmoved",
      "WARC/1.0\r\n\r\nHTTP/1.1 301 Moved\r\nServer: x",
      "WARC/1.0\r\n\r\nHTTP/1.1 302 Found",
      "WARC/1.0\r\nWARC-Type: warcinfo\r\n\r\n" }

\* the range that ends at offset + length
RangeToLengthEnd(warc_filename, offset, length) ==
    [key |-> warc_filename, first |-> offset, last |-> offset + length]

\* Range='bytes={}-{}'.format(offset, offset_end) on bucket.Object(warc_filename)
RangeOf(warc_filename, offset, length) ==
    [key |-> warc_filename, first |-> offset, last |-> offset + length - 1]

\* split('\r\n\r\n') without the limit of 2
ParseWarcSplitAll(c) ==
    LET content_parst == SplitMax(Strip(c), "\r\n\r\n", -1)
    IN  IF Len(content_parst) < 2
        THEN [raises |-> "IndexError", value |-> None]
        ELSE [raises |-> NoException,
              value |-> IF Len(content_parst) >= 3
                        THEN [warc_header |-> content_parst[1],
                              http_header |-> content_parst[2],
                              html |-> content_parst[3]]
                        ELSE [warc_header |-> content_parst[1],
                              http_header |-> content_parst[2]]]

\* lines 235-243 of get_page_data_from_warc: the dict, or the IndexError
ParseWarc(c) ==
    LET content_parst == SplitMax(Strip(c), "\r\n\r\n", 2)
    IN  IF Len(content_parst) < 2
        THEN [raises |-> "IndexError", value |-> None]
        ELSE [raises |-> NoException,
              value |-> IF Len(content_parst) >= 3
                        THEN [warc_header |-> content_parst[1],
                              http_header |-> content_parst[2],
                              html |-> content_parst[3]]
                        ELSE [warc_header |-> content_parst[1],
                              http_header |-> content_parst[2]]]

----------------------------------------------------------------------------
(* RedirectResolver: get_location_from_headers and load_page_data *)

UpperToLower ==
    ("A" :> "a") @@ ("C" :> "c") @@ ("I" :> "i") @@ ("L" :> "l") @@ ("N" :> "n")
        @@ ("O" :> "o") @@ ("S" :> "s") @@ ("T" :> "t")

RECURSIVE Lower(_)
Lower(s) ==
    IF Len(s) = 0 THEN ""
    ELSE (IF CharAt(s, 1) \in DOMAIN UpperToLower THEN UpperToLower[CharAt(s, 1)]
          ELSE CharAt(s, 1)) \o Lower(SubSeq(s, 2, Len(s)))

\* email.message_from_file(...).get(name): the header block ends at the first
\* line that is no "name: value" field; names match without regard to case;
\* the value of the first match, or None
RECURSIVE HeaderGet(_, _)
HeaderGet(lines, name) ==
    IF Len(lines) = 0 THEN None
    ELSE LET field == SplitMax(Head(lines), ":", 1)
         IN  IF Len(field) # 2 \/ field[1] = "" THEN None
             ELSE IF Lower(field[1]) = Lower(name) THEN PyStr(Strip(field[2]))
             ELSE HeaderGet(Tail(lines), name)

\* get_location_from_headers: the ValueError of the unpacking, or Optional[str]
get_location_from_headers(headers) ==
    LET parts == SplitMax(headers, "\r\n", 1)
    IN  IF Len(parts) # 2
        THEN [raises |-> "ValueError", value |-> None]
        ELSE LET loc == HeaderGet(SplitLines(parts[2]), "Location")
             IN  [raises |-> NoException,
                  value |-> IF loc # None /\ loc.value # "" THEN loc ELSE None]

\* every 3xx status taken for a redirect
IsAnyThreeHundred(status) == Len(status) = 3 /\ CharAt(status, 1) = "3"

\* location['status'] in ['301', '302'], line 284
IsRedirect(status) == status \in {"301", "302"}

\* the recursive call made with follow_redirect left on
NestedFollowsAgain == TRUE

\* follow_redirect of the recursive call, line 287
NestedFollowRedirect == FALSE

\* an empty record in place of None
ReturnEmptyRecord(loc) == [html |-> ""]

\* return location, line 292: the value of a frame that found no location
ReturnNoLocation(loc) == loc

\* the suspended frame merging new_result into its own record
UnwindMerging(v, stk) ==
    IF Len(stk) = 0 THEN v
    ELSE IF v # None
    THEN Merge(Merge(Head(stk).location, Head(stk).warc), v)
    ELSE Merge(Head(stk).location, Head(stk).warc)

\* What the caller gets when the running frame returns v: each suspended
\* frame returns new_result if it is truthy, else its own merged record
\* (lines 288-290)
RECURSIVE Unwind(_, _)
Unwind(v, stk) ==
    IF Len(stk) = 0 THEN v
    ELSE Unwind(IF v # None THEN v ELSE Merge(Head(stk).location, Head(stk).warc), Tail(stk))

Urls == {"http://a/"}
Filenames == {"a.warc.gz"}
Offsets == {0, 120}
Lengths == {30}

\* crawler.get_url_location(u): params are made, the lazy pipe is built and
\* `list` starts
GetUrlLocation(u) ==
    /\ pc = "idle"
    /\ op' = "get_url_location"
    /\ result' = None
    /\ raised' = NoException
    /\ FreshFind
    /\ url' = u
    /\ locations' = <<>>
    /\ location' = None
    /\ range' = NoRange
    /\ content' = ""
    /\ warc' = None
    /\ follow_redirect' = TRUE
    /\ stack' = <<>>
    /\ resolveCalls' = 1
    /\ fetchCalls' = 0
    /\ params' = [url |-> u, closest |-> _cur_ts(1)]
    /\ answers' = <<>>
    /\ request' = NoRequest
    /\ response' = NoAnswer
    /\ pc' = "locate_url"
    /\ UNCHANGED <<indexes, loadVars>>

\* crawler.load_page_data(u, f): up to its call of get_url_location
LoadPageData(u, f) ==
    /\ pc = "idle"
    /\ op' = "load_page_data"
    /\ result' = None
    /\ raised' = NoException
    /\ FreshFind
    /\ url' = u
    /\ locations' = <<>>
    /\ location' = None
    /\ range' = NoRange
    /\ content' = ""
    /\ warc' = None
    /\ follow_redirect' = f
    /\ stack' = <<>>
    /\ resolveCalls' = 1
    /\ fetchCalls' = 0
    /\ params' = [url |-> u, closest |-> _cur_ts(1)]
    /\ answers' = <<>>
    /\ request' = NoRequest
    /\ response' = NoAnswer
    /\ pc' = "locate_url"
    /\ UNCHANGED <<indexes, loadVars>>

\* `list` pulls the next partition: __locate_url(index, params); on 503 the
\* sleep and the recursive call with the same arguments, which the
\* interpreter refuses with RecursionError once its stack is full; on 2xx the
\* lines are parsed, tagged and appended; any other status contributes nothing
LocateUrl(r) ==
    /\ pc = "locate_url"
    /\ ~PipeExhausted(ind, indexes, locations)
    /\ request' = [endpoint |-> indexes[ind + 1], query |-> params]
    /\ response' = r
    /\ IF r.status_code = 503
       THEN IF depth < MaxDepth
            THEN /\ depth' = depth + 1
                 /\ UNCHANGED <<pc, ind, indexes, locations, answers, result, raised, stack>>
            ELSE /\ Raise("RecursionError")
                 /\ UNCHANGED <<ind, indexes, depth, locations, answers>>
       ELSE IF IsSuccess(r.status_code)
       THEN IF \E i \in 1..Len(r.content) : ~r.content[i].is_json
            THEN /\ Raise("JSONDecodeError")
                 /\ indexes' = IterateIndexes(indexes)
                 /\ UNCHANGED <<ind, depth, locations, answers>>
            ELSE /\ locations' = locations \o TagLocations(r.content, indexes[ind + 1])
                 /\ answers' = Append(answers, r)
                 /\ ind' = ind + 1
                 /\ indexes' = IterateIndexes(indexes)
                 /\ depth' = 0
                 /\ UNCHANGED <<pc, result, raised, stack>>
       ELSE /\ answers' = Append(answers, r)
            /\ ind' = ind + 1
            /\ indexes' = IterateIndexes(indexes)
            /\ depth' = 0
            /\ UNCHANGED <<pc, locations, result, raised, stack>>
    /\ UNCHANGED <<op, loadVars, pages_number, page, urlkeys, all_urls,
                   url, location, range, content, warc, follow_redirect,
                   resolveCalls, fetchCalls, params>>

\* every partition has answered: get_url_location picks the location and
\* returns; inside load_page_data the frame goes on to line 275
SelectLocation ==
    /\ pc = "locate_url"
    /\ PipeExhausted(ind, indexes, locations)
    /\ location' = LocationOf(locations)
    /\ IF op = "get_url_location"
       THEN /\ result' = location'
            /\ pc' = "idle"
            /\ stack' = stack
       ELSE IF location' # None
       THEN /\ pc' = "get_page_data_from_warc"
            /\ UNCHANGED <<result, stack>>
       ELSE /\ result' = Unwind(ReturnNoLocation(location'), stack)
            /\ pc' = "idle"
            /\ stack' = <<>>
    /\ UNCHANGED <<op, indexes, raised, loadVars, findVars, url, locations,
                   range, content, warc, follow_redirect, resolveCalls, fetchCalls,
                   params, answers, netVars>>

\* lines 276-290 of load_page_data: the range read of the slice, its parse,
\* and then either the return of the merged record or the recursive call
\* for the redirect target, whose get_url_location makes params of its own
FetchPageData(c) ==
    /\ pc = "get_page_data_from_warc"
    /\ op = "load_page_data"
    /\ LET offset == PyInt(location.offset)
           length == PyInt(location.length)
           parsed == ParseWarc(c)
           redirect == follow_redirect /\ IsRedirect(location.status)
           new_url == get_location_from_headers(parsed.value.http_header)
       IN  IF ~offset.ok \/ ~length.ok
           THEN /\ Raise("ValueError")
                /\ UNCHANGED <<range, content, warc, fetchCalls, url, locations, location,
                               follow_redirect, resolveCalls, ind, depth, params, answers>>
           ELSE /\ range' = RangeOf(location.filename, offset.value, length.value)
                /\ fetchCalls' = fetchCalls + 1
                /\ content' = c
                /\ warc' = parsed.value
                /\ IF parsed.raises # NoException
                   THEN /\ Raise(parsed.raises)
                        /\ UNCHANGED <<url, locations, location, follow_redirect,
                                       resolveCalls, ind, depth, params, answers>>
                   ELSE IF redirect /\ new_url.raises # NoException
                   THEN /\ Raise(new_url.raises)
                        /\ UNCHANGED <<url, locations, location, follow_redirect,
                                       resolveCalls, ind, depth, params, answers>>
                   ELSE IF redirect /\ new_url.value # None
                   THEN /\ stack' = <<[url |-> url, location |-> location,
                                        warc |-> parsed.value]>> \o stack
                        /\ url' = new_url.value.value
                        /\ follow_redirect' = NestedFollowRedirect
                        /\ resolveCalls' = resolveCalls + 1
                        /\ locations' = <<>>
                        /\ location' = None
                        /\ params' = [url |-> new_url.value.value,
                                      closest |-> _cur_ts(resolveCalls + 1)]
                        /\ answers' = <<>>
                        /\ ind' = 0
                        /\ depth' = 0
                        /\ pc' = "locate_url"
                        /\ UNCHANGED <<result, raised>>
                   ELSE /\ result' = Unwind(Merge(location, parsed.value), stack)
                        /\ pc' = "idle"
                        /\ stack' = <<>>
                        /\ UNCHANGED <<raised, url, locations, location, follow_redirect,
                                       resolveCalls, ind, depth, params, answers>>
    /\ UNCHANGED <<op, indexes, loadVars, pages_number, page, urlkeys, all_urls, netVars>>

\* crawler.get_page_data_from_warc(f, off, len): the whole method
GetPageDataFromWarc(f, off, len, c) ==
    /\ pc = "idle"
    /\ op' = "get_page_data_from_warc"
    /\ FreshFind
    /\ url' = ""
    /\ locations' = <<>>
    /\ location' = None
    /\ follow_redirect' = TRUE
    /\ stack' = <<>>
    /\ resolveCalls' = 0
    /\ fetchCalls' = 1
    /\ params' = NoParams
    /\ answers' = <<>>
    /\ request' = NoRequest
    /\ response' = NoAnswer
    /\ range' = RangeOf(f, off, len)
    /\ content' = c
    /\ LET parsed == ParseWarc(c)
       IN  /\ warc' = parsed.value
           /\ result' = parsed.value
           /\ raised' = parsed.raises
    /\ pc' = "idle"
    /\ UNCHANGED <<indexes, loadVars>>

----------------------------------------------------------------------------
(* The specifications *)

\* The client under construction, and load_indexes on the constructed client
InitLoad ==
    /\ pc = "new"
    /\ op = "none"
    /\ indexes = <<>>
    /\ result = None
    /\ raised = NoException
    /\ arg = [given |-> FALSE]
    /\ attempts = 0
    /\ failures = 0
    /\ recent_k = 0
    /\ resp = NoResponse
    /\ ind = 0
    /\ depth = 0
    /\ pages_number = 0
    /\ page = 0
    /\ urlkeys = <<>>
    /\ all_urls = <<>>
    /\ url = ""
    /\ locations = <<>>
    /\ location = None
    /\ range = NoRange
    /\ content = ""
    /\ warc = None
    /\ follow_redirect = TRUE
    /\ stack = <<>>
    /\ resolveCalls = 0
    /\ fetchCalls = 0
    /\ params = NoParams
    /\ answers = <<>>
    /\ request = NoRequest
    /\ response = NoAnswer

NextLoad ==
    \/ \E a \in LimitArgs : Construct(a)
    \/ \E a \in LimitArgs : LoadIndexes(a)
    \/ \E r \in CatalogResponses : CatalogGet(r)

SpecLoad == InitLoad /\ [][NextLoad]_vars

\* A constructed client: self.indexes is what load_indexes returned for a
\* catalog of at most MaxPartitions partitions
Init ==
    /\ pc = "idle"
    /\ op = "__init__"
    /\ indexes \in {ParseIndexes(CollInfo(n), 0) : n \in 0..MaxPartitions}
    /\ result = None
    /\ raised = NoException
    /\ arg = [given |-> TRUE, value |-> 0]
    /\ attempts = 1
    /\ failures = 0
    /\ recent_k = 0
    /\ resp = [reason |-> "OK", json |-> CollInfo(Len(indexes))]
    /\ ind = 0
    /\ depth = 0
    /\ pages_number = 0
    /\ page = 0
    /\ urlkeys = <<>>
    /\ all_urls = <<>>
    /\ url = ""
    /\ locations = <<>>
    /\ location = None
    /\ range = NoRange
    /\ content = ""
    /\ warc = None
    /\ follow_redirect = TRUE
    /\ stack = <<>>
    /\ resolveCalls = 0
    /\ fetchCalls = 0
    /\ params = NoParams
    /\ answers = <<>>
    /\ request = NoRequest
    /\ response = NoAnswer

Next ==
    \/ FindDomainUrls
    \/ \E r \in PageCountResponses : GetPagesNumber(r)
    \/ \E r \in PageQueryResponses : QueryIndex(r)
    \/ ReturnDomainUrls
    \/ \E u \in Urls : GetUrlLocation(u)
    \/ \E u \in Urls, f \in BOOLEAN : LoadPageData(u, f)
    \/ \E r \in LocationResponses : LocateUrl(r)
    \/ SelectLocation
    \/ \E c \in Payloads : FetchPageData(c)
    \/ \E f \in Filenames, off \in Offsets, len \in Lengths, c \in Payloads :
           GetPageDataFromWarc(f, off, len, c)

Spec == Init /\ [][Next]_vars

----------------------------------------------------------------------------
(* Properties of the catalog load, checked under SpecLoad *)

Min(a, b) == IF a <= b THEN a ELSE b

\* load_indexes has ended, by a return or by the exception
LoadEnded == pc \in {"idle", "failed"}

\* load_indexes has returned its list
LoadReturned == pc = "idle" /\ raised = NoException

\* the list it returned: self.indexes after __init__, else the caller's value
Loaded == IF op = "__init__" THEN indexes ELSE result.value

\* the cdx-api endpoints in the order the catalog response lists them
Supplied == [i \in 1..Len(resp.json) |-> resp.json[i]["cdx-api"]]

\* C1: load_indexes issues at most 10 catalog GETs; it goes on only while
\* every response so far was a non-success; it returns right after the first
\* success response; it ends with IOError exactly when 10 responses were
\* non-success.
C1_LoadRetriesAtMostTen ==
    /\ attempts <= 10
    /\ (pc = "load_indexes" => failures = attempts)
    /\ (LoadEnded => ((raised = "IOError") <=> (failures = 10)))
    /\ (LoadEnded /\ raised = "IOError" => attempts = 10)
    /\ (LoadReturned => /\ resp.reason = "OK"
                        /\ attempts = failures + 1
                        /\ Loaded \in Seq(1..MaxCatalog))

\* C1 witness: the tenth non-success response ended the load with IOError
C1_Witness ==
    /\ op = "load_indexes"
    /\ pc = "idle"
    /\ raised = "IOError"
    /\ attempts = 10
    /\ failures = 10

\* C2 as stated: the first min(limit, n) partitions in the supplied order for
\* a limit > 0, and all n partitions for a limit that is 0 or absent.
C2_AbsentLimitLoadsAll ==
    LoadReturned =>
        /\ (arg.given /\ arg.value > 0 =>
                Loaded = SubSeq(Supplied, 1, Min(arg.value, Len(Supplied))))
        /\ (~arg.given \/ arg.value = 0 => Loaded = Supplied)

\* C2 amended: the first min(limit, n) partitions in the supplied order for a
\* limit > 0, all n partitions for the limit 0; with the limit absent,
\* load_indexes returns the first min(5, n) and the constructor loads the
\* first min(1, n).
C2_LimitTruncatesInOrder ==
    LoadReturned =>
        /\ (arg.given /\ arg.value > 0 =>
                Loaded = SubSeq(Supplied, 1, Min(arg.value, Len(Supplied))))
        /\ (arg.given /\ arg.value = 0 => Loaded = Supplied)
        /\ (~arg.given /\ op = "load_indexes" =>
                Loaded = SubSeq(Supplied, 1, Min(5, Len(Supplied))))
        /\ (~arg.given /\ op = "__init__" =>
                Loaded = SubSeq(Supplied, 1, Min(1, Len(Supplied))))

\* C2 witness: load_indexes() without a limit, over a catalog of more than 5
\* partitions, returned the first 5
C2_Witness ==
    /\ LoadReturned
    /\ op = "load_indexes"
    /\ ~arg.given
    /\ Len(Supplied) > 5
    /\ result.value = SubSeq(Supplied, 1, 5)

----------------------------------------------------------------------------
(* Properties of the calls on a constructed client, checked under Spec *)

PublicCalls ==
    {"find_domain_urls", "get_url_location", "get_page_data_from_warc", "load_page_data"}

\* C3: find_domain_urls, get_url_location, get_page_data_from_warc and
\* load_page_data never end with an exception, whatever the remote services
\* answer.
C3_OnlyCatalogLoadRaises ==
    op \in PublicCalls => raised = NoException

\* get_url_location has returned for the running (or last) lookup: every
\* partition was consumed and the selection made
ResolveReturned == pc # "locate_url" /\ resolveCalls > 0 /\ ind = Len(indexes)

C5_OneRedirectHop ==
    op = "load_page_data" =>
        /\ resolveCalls <= 2
        /\ fetchCalls <= 2
        /\ Len(stack) <= 1
        /\ (Len(stack) = 1 => ~follow_redirect)
        /\ (pc = "idle" /\ raised = NoException /\ resolveCalls = 2
                /\ ind = Len(indexes) /\ location # None
              => result = Merge(location, warc))

\* C5 witness: the redirect target was itself a 301/302 record whose header
\* names a Location, and the call returned the target's record after two
\* lookups and two reads
C5_Witness ==
    /\ op = "load_page_data"
    /\ pc = "idle"
    /\ raised = NoException
    /\ resolveCalls = 2
    /\ fetchCalls = 2
    /\ location # None
    /\ location.status \in {"301", "302"}
    /\ get_location_from_headers(warc.http_header).value # None
    /\ result = Merge(location, warc)

\* C6: when the lookup of a load_page_data call returns None, the call has
\* returned None, without an exception and without a range read.
C6_NoLocationNoResult ==
    op = "load_page_data" /\ resolveCalls = 1 /\ ResolveReturned /\ location = None
        => /\ pc = "idle"
           /\ result = None
           /\ raised = NoException
           /\ fetchCalls = 0
           /\ range = NoRange

\* C6 witness: every partition answered, none with a candidate, and the call
\* returned None
C6_Witness ==
    /\ op = "load_page_data"
    /\ pc = "idle"
    /\ resolveCalls = 1
    /\ ind = Len(indexes)
    /\ Len(indexes) = 2
    /\ location = None
    /\ result = None

\* position of the first occurrence of x in seq
FirstAt(seq, x) ==
    CHOOSE k \in 1..Len(seq) : seq[k] = x /\ \A m \in 1..(k - 1) : seq[m] # x

\* C7: the list find_domain_urls returns has no two equal entries, holds
\* exactly the urls of the stream of transformed urlkeys, and orders them by
\* their first occurrence in that stream.
C7_UniqueInFirstOccurrenceOrder ==
    pc = "idle" /\ op = "find_domain_urls" /\ raised = NoException =>
        LET out == result.value
            stream == UrlsOfLines(urlkeys)
        IN  /\ \A i, j \in 1..Len(out) : i # j => out[i] # out[j]
            /\ {out[i] : i \in 1..Len(out)} = {stream[k] : k \in 1..Len(stream)}
            /\ \A i, j \in 1..Len(out) :
                   i < j => FirstAt(stream, out[i]) < FirstAt(stream, out[j])

\* C7 witness: two partitions were listed, a url came again after another
\* one, and the list holds it once
C7_Witness ==
    /\ pc = "idle"
    /\ op = "find_domain_urls"
    /\ raised = NoException
    /\ ind = 2
    /\ LET stream == UrlsOfLines(urlkeys)
       IN  /\ Len(result.value) >= 3
           /\ Len(stream) > Len(result.value)
           /\ \E a, b \in 1..Len(stream) :
                  b > a + 1 /\ stream[a] = stream[b] /\ stream[a + 1] # stream[a]

HasSeparator(k) == \E p \in 1..(Len(k) - 1) : SubSeq(k, p, p + 1) = ")/"

FirstSeparator(k) ==
    CHOOSE p \in 1..(Len(k) - 1) :
        SubSeq(k, p, p + 1) = ")/" /\ \A q \in 1..(p - 1) : SubSeq(k, q, q + 1) # ")/"

\* the comma-separated labels of d in reverse order, joined with "."
RECURSIVE DotReversed(_)
DotReversed(d) ==
    LET commas == {i \in 1..Len(d) : CharAt(d, i) = ","}
        c == CHOOSE i \in commas : \A j \in commas : i <= j
    IN  IF commas = {} THEN d
        ELSE DotReversed(SubSeq(d, c + 1, Len(d))) \o "." \o SubSeq(d, 1, c - 1)

ExpectedUrl(k) ==
    LET p == FirstSeparator(k)
        path == SubSeq(k, p + 2, Len(k))
    IN  IF path = "" THEN DotReversed(SubSeq(k, 1, p - 1))
        ELSE DotReversed(SubSeq(k, 1, p - 1)) \o "/" \o path

\* C8: for every urlkey read, the transform gives None when the key has no
\* ")/", else the reversed, dot-joined domain labels before the first ")/"
\* followed by "/" and the path when the path is not empty; every url of the
\* output comes from a key that has the separator.
C8_UrlkeyTransform ==
    /\ \A i \in 1..Len(urlkeys) :
           LET k == urlkeys[i]
               r == _urlkey_to_url(k)
           IN  /\ (~HasSeparator(k) => r = None)
               /\ (HasSeparator(k) => r = PyStr(ExpectedUrl(k)))
               /\ (k = "com,example)/path" => r = PyStr("example.com/path"))
               /\ (k = "com,example)/" => r = PyStr("example.com"))
               /\ (k = "nosep" => r = None)
    /\ \A j \in 1..Len(all_urls) :
           \E i \in 1..Len(urlkeys) :
               /\ HasSeparator(urlkeys[i])
               /\ all_urls[j] = Strip(Unquote(ExpectedUrl(urlkeys[i])))

\* C8 witness: the three keys of the examples were read and the list
\* returned holds the two urls
C8_Witness ==
    /\ pc = "idle"
    /\ op = "find_domain_urls"
    /\ raised = NoException
    /\ \A k \in {"com,example)/path", "com,example)/", "nosep"} :
           \E i \in 1..Len(urlkeys) : urlkeys[i] = k
    /\ \A u \in {"example.com/path", "example.com"} :
           \E j \in 1..Len(result.value) : result.value[j] = u
    /\ \A j \in 1..Len(result.value) : result.value[j] # "nosep"

BlankLine == "\r\n\r\n"

\* how often text t holds the separator (occurrences that do not overlap)
SeparatorCount(t) == Len(SplitMax(t, BlankLine, -1)) - 1

\* what follows the second separator of t
AfterSecondSeparator(t) ==
    LET p1 == Find(t, BlankLine)
        rest == SubSeq(t, p1 + 4, Len(t))
        p2 == Find(rest, BlankLine)
    IN  SubSeq(rest, p2 + 4, Len(rest))

\* C9 as stated: a payload with exactly one separator gives a record with
\* the two headers and no body, without an error; with a second separator
\* the body is everything after it in the payload.
C9_BodyIsRestOfPayload ==
    fetchCalls > 0 =>
        /\ (SeparatorCount(content) = 1 =>
                /\ raised # "IndexError"
                /\ DOMAIN warc = {"warc_header", "http_header"})
        /\ (SeparatorCount(content) >= 2 =>
                /\ "html" \in DOMAIN warc
                /\ warc.html = AfterSecondSeparator(content))

\* C9 amended: the same, of the payload with its leading and trailing
\* whitespace stripped: exactly one separator gives the two headers and no
\* body, without an error; with a second separator the body is everything
\* after it in the stripped payload.
C9_BodyIsRestOfStrippedPayload ==
    fetchCalls > 0 =>
        LET s == Strip(content)
            p1 == Find(s, BlankLine)
        IN  /\ (SeparatorCount(s) = 1 =>
                    /\ raised # "IndexError"
                    /\ DOMAIN warc = {"warc_header", "http_header"}
                    /\ warc.warc_header = SubSeq(s, 1, p1 - 1)
                    /\ warc.http_header = SubSeq(s, p1 + 4, Len(s)))
            /\ (SeparatorCount(s) >= 2 =>
                    /\ raised # "IndexError"
                    /\ DOMAIN warc = {"warc_header", "http_header", "html"}
                    /\ warc.warc_header = SubSeq(s, 1, p1 - 1)
                    /\ warc.html = AfterSecondSeparator(s))

\* C9 witness: a slice of two segments was read and the record has both
\* headers, not empty, and no body
C9_Witness ==
    /\ fetchCalls > 0
    /\ op = "get_page_data_from_warc"
    /\ raised = NoException
    /\ SeparatorCount(Strip(content)) = 1
    /\ DOMAIN warc = {"warc_header", "http_header"}
    /\ warc.warc_header # ""
    /\ warc.http_header # ""

----------------------------------------------------------------------------
(* Claims about the answers of the partitions *)

\* a lookup is running or has ended in this call
InLookup == op \in {"get_url_location", "load_page_data"} /\ resolveCalls > 0

\* the record the line of a partition's answer stands for, with the partition
\* as its origin
Tagged(line, partition) ==
    [f \in (DOMAIN line.json) \cup {"index"} |->
        IF f = "index" THEN partition ELSE line.json[f]]

\* the candidates of the first k answers, those of the 2xx answers alone
RECURSIVE CandidatesOfSuccesses(_)
CandidatesOfSuccesses(k) ==
    IF k = 0 THEN <<>>
    ELSE CandidatesOfSuccesses(k - 1)
            \o (IF answers[k].status_code \in 200..299
                THEN [i \in 1..Len(answers[k].content) |->
                         Tagged(answers[k].content[i], indexes[k])]
                ELSE <<>>)

\* the selection rule: nothing of no candidates, else the first "200"
\* candidate, else the first candidate
Selected(cands) ==
    IF Len(cands) = 0 THEN None
    ELSE IF \E j \in 1..Len(cands) : cands[j].status = "200"
    THEN cands[CHOOSE j \in 1..Len(cands) :
                   /\ cands[j].status = "200"
                   /\ \A i \in 1..(j - 1) : cands[i].status # "200"]
    ELSE cands[1]

\* C11: in a lookup, an answer with a status outside 2xx other than 503 adds
\* no candidate and raises nothing: every partition consumed has its answer
\* on record, the candidates are those of the 2xx answers alone, an exception
\* of the lookup only ever follows a 2xx or a 503 answer, and the returned
\* location is the selection rule over the candidates of the 2xx answers of
\* all partitions.
C11_NonSuccessContributesNothing ==
    InLookup =>
        /\ Len(answers) = ind
        /\ locations = CandidatesOfSuccesses(Len(answers))
        /\ (raised \in {"JSONDecodeError", "RecursionError"} =>
                response.status_code \in (200..299) \cup {503})
        /\ (ResolveReturned =>
                /\ Len(answers) = Len(indexes)
                /\ location = Selected(CandidatesOfSuccesses(Len(indexes))))

\* C11 witness: the first of two partitions answered 404 or 500, the second
\* was queried all the same and the location returned is its capture
C11_Witness ==
    /\ op = "get_url_location"
    /\ pc = "idle"
    /\ raised = NoException
    /\ Len(indexes) = 2
    /\ Len(answers) = 2
    /\ answers[1].status_code \in {404, 500}
    /\ answers[2].status_code = 200
    /\ result # None
    /\ result.index = indexes[2]

----------------------------------------------------------------------------
(* Claims about the retries *)

\* the last GET of the lookup was answered 503
Unavailable == InLookup /\ response.status_code = 503

\* the query the lookup sends next is the one it sent last
SameQueryPending ==
    /\ pc = "locate_url"
    /\ ind < Len(indexes)
    /\ request = [endpoint |-> indexes[ind + 1], query |-> params]

\* C12: in a lookup, whenever a partition has answered 503 the lookup goes
\* on, however many 503 answers came before: nothing is raised, no candidate
\* was added, and the query sent next is the same one (same url, same closest
\* timestamp) to the same partition; the lookup returns once every partition
\* has given an answer other than 503.
C12_UnavailableRetriedWithoutCap ==
    /\ (Unavailable =>
            /\ raised = NoException
            /\ SameQueryPending
            /\ locations = CandidatesOfSuccesses(Len(answers)))
    /\ (InLookup /\ ResolveReturned =>
            /\ Len(answers) = Len(indexes)
            /\ \A i \in 1..Len(answers) : answers[i].status_code # 503)

\* C12, as far as the stack lasts: the same, for the 503 answers that the
\* interpreter still had room to retry
C12_UnavailableRetriedWhileStackLasts ==
    /\ (Unavailable /\ raised # "RecursionError" =>
            /\ raised = NoException
            /\ SameQueryPending
            /\ depth > 0
            /\ locations = CandidatesOfSuccesses(Len(answers)))
    /\ (Unavailable /\ raised = "RecursionError" =>
            /\ pc = "idle"
            /\ depth = MaxDepth
            /\ result = None)
    /\ (InLookup /\ ResolveReturned =>
            /\ Len(answers) = Len(indexes)
            /\ \A i \in 1..Len(answers) : answers[i].status_code # 503)

\* a partition answered 503 again and again and the lookup sends the same
\* query once more
C12_RetryReached ==
    /\ Unavailable
    /\ depth = MaxDepth
    /\ SameQueryPending
    /\ ind = 1
    /\ Len(locations) > 0

\* the last page query of find_domain_urls ended with the transport error
PageQueryFailed ==
    /\ op = "find_domain_urls"
    /\ request # NoRequest
    /\ request.query = "page"
    /\ response.error = "ChunkedEncodingError"

\* the page query find_domain_urls sends next is the one it sent last
SamePagePending ==
    /\ pc = "query_index"
    /\ page < pages_number
    /\ request = [endpoint |-> indexes[ind], query |-> "page", page |-> page]

\* C13: the page query of find_domain_urls is retried without a cap: a failed
\* page query is always followed by the same page query, find_domain_urls
\* never reports a failure of its retries, and the list it returns is the one
\* the successful responses alone determine, as in a run without failures.
C13_PageRetryWithoutCap ==
    /\ (PageQueryFailed => raised = NoException /\ SamePagePending)
    /\ (op = "find_domain_urls" => raised # "RecursionError")
    /\ (op = "find_domain_urls" /\ pc = "idle" /\ raised = NoException =>
            result = PyList(Unique(<<>>, UrlsOfLines(urlkeys))))

\* C13, as far as the stack lasts: failures the interpreter had room to retry
\* leave no trace in the list, and the failure it has no room for ends the
\* call with RecursionError
C13_PageRetryWhileStackLasts ==
    /\ (PageQueryFailed /\ raised # "RecursionError" =>
            raised = NoException /\ SamePagePending /\ depth > 0)
    /\ (PageQueryFailed /\ raised = "RecursionError" =>
            pc = "idle" /\ depth = MaxDepth /\ result = None)
    /\ (op = "find_domain_urls" /\ pc = "idle" /\ raised = NoException =>
            result = PyList(Unique(<<>>, UrlsOfLines(urlkeys))))

\* a page query failed again and again after an earlier page went through,
\* and find_domain_urls sends the same page query once more
C13_RetryReached ==
    /\ PageQueryFailed
    /\ depth = MaxDepth
    /\ SamePagePending
    /\ page = 1
    /\ Len(urlkeys) > 0

----------------------------------------------------------------------------
(* Claims about the order of the queries of find_domain_urls *)

\* where a partition stands in the loaded list
PositionOf(endpoint) == CHOOSE k \in 1..Len(indexes) : indexes[k] = endpoint

PageCountQuery(k) == [endpoint |-> indexes[k], query |-> "showNumPages"]

\* the GET that has to follow the last one, given how that one ended
ExpectedQuery ==
    IF request = NoRequest
    THEN PageCountQuery(1)
    ELSE IF request.query = "showNumPages"
    THEN IF response.json.pages > 0
         THEN [endpoint |-> request.endpoint, query |-> "page", page |-> 0]
         ELSE PageCountQuery(PositionOf(request.endpoint) + 1)
    ELSE IF response.error = "ChunkedEncodingError"
    THEN request
    ELSE IF request.page + 1 < pages_number
    THEN [request EXCEPT !.page = request.page + 1]
    ELSE PageCountQuery(PositionOf(request.endpoint) + 1)

\* every query a partition can get has been sent and answered
AllPagesDone ==
    IF request = NoRequest
    THEN indexes = <<>>
    ELSE /\ request.endpoint = indexes[Len(indexes)]
         /\ IF request.query = "showNumPages"
            THEN response.json.pages = 0
            ELSE response.error = "" /\ request.page = pages_number - 1

\* the step is the return of find_domain_urls
FindReturns == pc = "find_domain_urls" /\ pc' = "idle" /\ raised' = NoException

\* the step sends a GET of find_domain_urls
FindQueries ==
    /\ op = "find_domain_urls"
    /\ pc \in {"find_domain_urls", "query_index"}
    /\ ~FindReturns

\* C14: find_domain_urls takes the partitions in catalog order; of each it
\* asks the page count N first and then pages 0, 1, ..., N-1 in this order
\* before it turns to the next partition; the query that follows a failed
\* page query is the same page query; the lines of a page that arrived are
\* appended once to what the pipe has taken in, a failure or a page count
\* adds nothing; and it returns only when the last page of the last
\* partition has arrived.
C14_PagesInOrder ==
    [][/\ (FindQueries =>
             /\ request' = ExpectedQuery
             /\ urlkeys' = urlkeys \o
                    (IF request'.query = "page" /\ response'.error = ""
                     THEN SplitLines(response'.content) ELSE <<>>))
       /\ (op = "find_domain_urls" /\ FindReturns =>
             AllPagesDone /\ urlkeys' = urlkeys)]_vars

\* C14 witness: on the second partition page 0 has arrived, page 1 failed
\* and page 1 is what find_domain_urls asks for next
C14_Witness ==
    /\ PageQueryFailed
    /\ SamePagePending
    /\ Len(indexes) = 2
    /\ request.endpoint = indexes[2]
    /\ request.page = 1
    /\ Len(urlkeys) > 0

----------------------------------------------------------------------------
(* Claims about load_page_data *)

\* the header has, after its status line, a field named Location (in any
\* case of letters) with a value
HasLocationField(header) ==
    LET lines == SplitLines(header)
    IN  \E i \in 2..Len(lines) :
            LET field == SplitMax(lines[i], ":", 1)
            IN  /\ Len(field) = 2
                /\ Lower(field[1]) = "location"
                /\ Strip(field[2]) # ""

\* the step is the range read of load_page_data and what it does with the slice
ReadsSlice ==
    /\ op = "load_page_data"
    /\ pc = "get_page_data_from_warc"
    /\ fetchCalls' = fetchCalls + 1

\* C15: the step of load_page_data that has read the slice starts a second
\* get_url_location exactly when follow_redirect is true, the status of the
\* located record is "301" or "302" and the http header of the slice has a
\* Location field; no other step of the call starts one.
C15_NestedLookupIffRedirect ==
    [][/\ (ReadsSlice =>
             /\ resolveCalls' \in {resolveCalls, resolveCalls + 1}
             /\ (resolveCalls' = resolveCalls + 1 <=>
                    /\ follow_redirect
                    /\ location.status \in {"301", "302"}
                    /\ warc' # None
                    /\ HasLocationField(warc'.http_header)))
       /\ (op = "load_page_data" /\ pc \notin {"idle", "get_page_data_from_warc"} =>
             resolveCalls' = resolveCalls)]_vars

\* C15 witness: the record located first has status "302", its slice names a
\* Location, and the second lookup is under way
C15_Witness ==
    /\ op = "load_page_data"
    /\ pc = "locate_url"
    /\ resolveCalls = 2
    /\ Len(stack) = 1
    /\ stack[1].location.status = "302"
    /\ HasLocationField(stack[1].warc.http_header)
    /\ url = "http://x/z"

\* a record of status "307" whose slice names a Location was returned after
\* one lookup, follow_redirect being true
C15_OtherRedirectNotFollowed ==
    /\ op = "load_page_data"
    /\ pc = "idle"
    /\ raised = NoException
    /\ follow_redirect
    /\ resolveCalls = 1
    /\ location # None
    /\ location.status = "307"
    /\ HasLocationField(warc.http_header)
    /\ result = Merge(location, warc)

\* rec holds every field of the location and every field of the slice, with
\* their values, and no other field
IsMergeOf(rec, loc, slice) ==
    /\ DOMAIN rec = (DOMAIN loc) \cup (DOMAIN slice)
    /\ \A f \in DOMAIN loc : rec[f] = loc[f]
    /\ \A f \in DOMAIN slice : rec[f] = slice[f]

\* the step is a return of load_page_data to its caller
LoadReturns ==
    /\ op = "load_page_data"
    /\ pc # "idle"
    /\ pc' = "idle"
    /\ raised' = NoException

\* C16: what load_page_data returns when its lookup found a location: with
\* no nested call made, the location merged with its slice; with a nested
\* call that found a location, the nested location merged with the nested
\* slice and nothing else; with a nested call that found none, the first
\* location merged with the first slice.
C16_NestedRecordElseMerged ==
    [][LoadReturns =>
          IF Len(stack) = 0
          THEN location' # None => IsMergeOf(result', location', warc')
          ELSE IF location' # None
          THEN IsMergeOf(result', location', warc')
          ELSE IsMergeOf(result', stack[1].location, stack[1].warc)]_vars

\* C16 witness: the nested lookup found nothing and the caller has the 301
\* or 302 record of the first lookup, merged with its slice
C16_Witness ==
    /\ op = "load_page_data"
    /\ pc = "idle"
    /\ raised = NoException
    /\ resolveCalls = 2
    /\ location = None
    /\ result # None
    /\ result.status \in {"301", "302"}
    /\ HasLocationField(result.http_header)
    /\ result.warc_header = "WARC/1.0"

\* the nested lookup found a record whose slice has no body, and the caller
\* has that record although the slice of the first record had a body
C16_NestedRecordReached ==
    /\ op = "load_page_data"
    /\ pc = "idle"
    /\ raised = NoException
    /\ resolveCalls = 2
    /\ location # None
    /\ url = "http://x/z"
    /\ "html" \notin DOMAIN result

----------------------------------------------------------------------------
(* Claims about the origin of a record *)

Partitions == {indexes[k] : k \in 1..Len(indexes)}

\* rec is a line of the k-th answer of the lookup, a 2xx answer, with the
\* k-th partition as its index and all other fields as the service gave them
CameFrom(rec, k) ==
    /\ answers[k].status_code \in 200..299
    /\ rec.index = indexes[k]
    /\ \E j \in 1..Len(answers[k].content) :
           LET line == answers[k].content[j].json
           IN  /\ DOMAIN rec = (DOMAIN line) \cup {"index"}
               /\ \A f \in (DOMAIN line) \ {"index"} : rec[f] = line[f]

\* C17: the index of every candidate of a lookup is the partition whose
\* answer held it, a member of self.indexes, whatever index field the
\* service put into the record itself; so is the index of the location the
\* lookup selects, and the index of a record that get_url_location or
\* load_page_data returns is a member of self.indexes.
C17_IndexIsOriginPartition ==
    InLookup =>
        /\ \A i \in 1..Len(locations) :
               /\ locations[i].index \in Partitions
               /\ \E k \in 1..Len(answers) : CameFrom(locations[i], k)
        /\ (ResolveReturned /\ location # None =>
               \E k \in 1..Len(answers) : CameFrom(location, k))
        /\ (pc = "idle" /\ raised = NoException /\ result # None =>
               result.index \in Partitions)

\* C17 witness: the second partition answered with a capture that had an
\* index field of its own, and the record returned names the second partition
C17_Witness ==
    /\ op = "load_page_data"
    /\ pc = "idle"
    /\ raised = NoException
    /\ Len(indexes) = 2
    /\ Len(answers) = 2
    /\ \E j \in 1..Len(answers[2].content) :
           /\ "index" \in DOMAIN answers[2].content[j].json
           /\ answers[2].content[j].json.index \notin Partitions
           /\ answers[2].content[j].json.filename = location.filename
    /\ location.index = indexes[2]
    /\ result.index = indexes[2]

----------------------------------------------------------------------------
(* Claims about the range read *)

DecimalDigit == <<"0", "1", "2", "3", "4", "5", "6", "7", "8", "9">>

\* the decimal text of a number
RECURSIVE Decimal(_)
Decimal(n) ==
    IF n < 10 THEN DecimalDigit[n + 1]
    ELSE Decimal(n \div 10) \o DecimalDigit[(n % 10) + 1]

\* the number a decimal text of the captures stands for
NumberOf(text) == CHOOSE n \in 0..199 : Decimal(n) = text

\* C18: every range read of load_page_data is made for the location its
\* lookup selected: the key is the filename of that record, the first byte
\* is the number its offset stands for and the last byte is offset plus
\* length minus one; no other step of the call reads.
C18_RangeIsOffsetToOffsetPlusLengthMinusOne ==
    [][/\ (ReadsSlice =>
             /\ location = Selected(locations)
             /\ range'.key = location.filename
             /\ range'.first = NumberOf(location.offset)
             /\ range'.last = NumberOf(location.offset) + NumberOf(location.length) - 1)
       /\ (op = "load_page_data" /\ pc \notin {"idle", "get_page_data_from_warc"} =>
             range' = range /\ fetchCalls' = fetchCalls)]_vars

\* C18 witness: for the record b.warc.gz, offset "120", length "30", bytes
\* 120 to 149 of b.warc.gz were read
C18_Witness ==
    /\ op = "load_page_data"
    /\ fetchCalls = 1
    /\ location # None
    /\ location.filename = "b.warc.gz"
    /\ location.offset = "120"
    /\ location.length = "30"
    /\ range = [key |-> "b.warc.gz", first |-> 120, last |-> 149]

----------------------------------------------------------------------------
(* Claims about the order of the queries of get_url_location *)

\* C19: a lookup does not stop early. While a partition of self.indexes has
\* not given an answer other than 503, the next step of the lookup sends the
\* query to the first such partition in list order and selects nothing,
\* whatever candidates there are already; an answer other than 503 is put on
\* record once and moves the lookup to the next partition, a 503 does not;
\* the selection is made only when every partition has one answer other than
\* 503 on record, and it is made over the candidates of all of them.
C19_EveryPartitionQueriedBeforeSelection ==
    [][InLookup /\ pc = "locate_url" =>
          IF ind < Len(indexes)
          THEN /\ request' = [endpoint |-> indexes[ind + 1], query |-> params]
               /\ location' = None
               /\ result' = None
               /\ (pc' = "locate_url" \/ raised' # NoException)
               /\ IF response'.status_code # 503 /\ raised' = NoException
                  THEN ind' = ind + 1 /\ answers' = Append(answers, response')
                  ELSE ind' = ind /\ answers' = answers
          ELSE /\ pc' # "locate_url"
               /\ Len(answers) = Len(indexes)
               /\ \A k \in 1..Len(answers) : answers[k].status_code # 503
               /\ location' = Selected(CandidatesOfSuccesses(Len(indexes)))
               /\ request' = request]_vars

\* C19 witness: the first of two partitions supplied a "200" candidate, the
\* second was queried all the same and gave one too, and the lookup returned
\* the candidate of the first
C19_Witness ==
    /\ op = "get_url_location"
    /\ pc = "idle"
    /\ raised = NoException
    /\ Len(indexes) = 2
    /\ Len(answers) = 2
    /\ Len(locations) = 6
    /\ locations[2].status = "200"
    /\ locations[2].index = indexes[1]
    /\ locations[5].status = "200"
    /\ locations[5].index = indexes[2]
    /\ result = locations[2]

====
